---- MODULE Spec2Model ----
(***************************************************************************)
(* A model of the BEF executor (lib/bef_executor/bef_executor.cc): the     *)
(* register file, the arguments_not_ready counters, the worklist-driven    *)
(* firing loop, the IndirectAsyncValue forwarding protocol, the used-by    *)
(* dispatch with error acceleration, and Execute's bootstrap/tear-down.    *)
(*                                                                         *)
(* One call of BEFExecutor::Execute is modelled.  The caller's thread is   *)
(* thread Main; every AndThen continuation registered by ProcessUsedBys    *)
(* for register r is thread r.  Threads interleave at the granularity of   *)
(* the atomic operations of the code (fetch_sub, load, compare_exchange).  *)
(* A continuation that AsyncValue::AndThen would run inline is one of the  *)
(* interleavings of the continuation's thread.  A spurious failure of      *)
(* compare_exchange_weak reloads the value it already holds and is a       *)
(* stuttering step.                                                        *)
(***************************************************************************)
EXTENDS Integers, Sequences, FiniteSets, TLC

-----------------------------------------------------------------------------
(* Bounds of the model. *)

\* The largest fan-out (number of consumers of one register) in FnFanOut.
MaxFanOut == 2

-----------------------------------------------------------------------------
(* What the function loader hands to Execute: the kernel stream (each      *)
(* kernel with its argument registers, result registers and the non-strict *)
(* bit), the number of registers and the result-register indices.  Kernel  *)
(* and register ids are the source's (from 0); kernel k is kernels[k+1].   *)

Kernel(arguments, results, nonstrict) ==
  [arguments |-> arguments, results |-> results, nonstrict |-> nonstrict]

\* The loader failed: an empty kernel stream, for a function of one result.
FnEmpty ==
  [name |-> "empty", nargs |-> 0, nregs |-> 1, kernels |-> <<>>,
   result_regs |-> <<0>>]

\* The loader failed for a function of one argument, which is also its
\* result.
FnEmptyArg ==
  [name |-> "emptyarg", nargs |-> 1, nregs |-> 1, kernels |-> <<>>,
   result_regs |-> <<0>>]

\* The identity function: the result is the argument; kernel 0 is the
\* argument pseudo-kernel and there is no other kernel.
FnIdentity ==
  [name |-> "identity", nargs |-> 1, nregs |-> 1,
   kernels |-> <<Kernel(<<>>, <<0>>, FALSE)>>,
   result_regs |-> <<0>>]

\* r2 = add(a0, a1); r3 = neg(r2); return r3.
FnChain ==
  [name |-> "chain", nargs |-> 2, nregs |-> 4,
   kernels |-> <<Kernel(<<>>, <<0, 1>>, FALSE),
                 Kernel(<<0, 1>>, <<2>>, FALSE),
                 Kernel(<<2>>, <<3>>, FALSE)>>,
   result_regs |-> <<3>>]

\* r0 = fail(); r1, r2 = const(); r3 = add(r0, r1); return r3.  r2 is unused.
FnError ==
  [name |-> "error", nargs |-> 0, nregs |-> 4,
   kernels |-> <<Kernel(<<>>, <<0>>, FALSE),
                 Kernel(<<>>, <<1, 2>>, FALSE),
                 Kernel(<<0, 1>>, <<3>>, FALSE)>>,
   result_regs |-> <<3>>]

\* r1 = produce(); r2 = select(a0, r1), non-strict; return r2.
FnNonStrict ==
  [name |-> "nonstrict", nargs |-> 1, nregs |-> 3,
   kernels |-> <<Kernel(<<>>, <<0>>, FALSE),
                 Kernel(<<>>, <<1>>, FALSE),
                 Kernel(<<0, 1>>, <<2>>, TRUE)>>,
   result_regs |-> <<2>>]

\* r1 = f(a0); r2 = g(); r3 = h(r1, r2); return r3.  When a0 is pending, f
\* and then h (if r1 is an error) fire on the thread that resolves a0 while
\* g fires on the caller's thread.
FnRace ==
  [name |-> "race", nargs |-> 1, nregs |-> 4,
   kernels |-> <<Kernel(<<>>, <<0>>, FALSE),
                 Kernel(<<0>>, <<1>>, FALSE),
                 Kernel(<<>>, <<2>>, FALSE),
                 Kernel(<<1, 2>>, <<3>>, FALSE)>>,
   result_regs |-> <<3>>]

\* r2 = neg(a0); return r2, r2.  a1 is unused and both results alias r2.
FnDeadArg ==
  [name |-> "deadarg", nargs |-> 2, nregs |-> 3,
   kernels |-> <<Kernel(<<>>, <<0, 1>>, FALSE),
                 Kernel(<<0>>, <<2>>, FALSE)>>,
   result_regs |-> <<2, 2>>]

\* r1 = f(a0); r2 = g(); r3 = h(r1, r2); r4 = k(r1); return r3.  r1 has two
\* consumers, and h binds r1 before f has written it when r2 is an error
\* and a0 is pending.
FnShared ==
  [name |-> "shared", nargs |-> 1, nregs |-> 5,
   kernels |-> <<Kernel(<<>>, <<0>>, FALSE),
                 Kernel(<<0>>, <<1>>, FALSE),
                 Kernel(<<>>, <<2>>, FALSE),
                 Kernel(<<1, 2>>, <<3>>, FALSE),
                 Kernel(<<1>>, <<4>>, FALSE)>>,
   result_regs |-> <<3>>]

\* r0 = produce(); r_i = consume_i(r0) for i in 1..n; return r_n.
FnFanOut(n) ==
  [name |-> "fanout", nargs |-> 0, nregs |-> n + 1,
   kernels |-> <<Kernel(<<>>, <<0>>, FALSE)>> \o
               [i \in 1..n |-> Kernel(<<0>>, <<i>>, FALSE)],
   result_regs |-> <<n>>]

Functions ==
  {FnEmpty, FnEmptyArg, FnIdentity, FnChain, FnError, FnNonStrict, FnDeadArg, FnRace,
   FnShared} \cup
  {FnFanOut(n) : n \in 2..MaxFanOut}

-----------------------------------------------------------------------------
(* AsyncValues.  Each register r has at most one value made by its         *)
(* producer (the function argument, or the result a kernel implementation  *)
(* returned), Val(r), and at most one IndirectAsyncValue that won the      *)
(* register, Ind(r).  CancelValue is the host's cancel sentinel.           *)

Null == <<"null", 0>>
Val(r) == <<"value", r>>
Ind(r) == <<"indirect", r>>
CancelValue == <<"cancel", 0>>

IsIndirect(v) == v[1] = "indirect"

\* The references the caller (for a function argument) and the host (for the
\* cancel sentinel) hold on their values before and after the call.
CallerRefs == 1

\* The thread that calls Execute.  Continuation threads are named by the
\* register whose value they wait for.
Main == -1

VARIABLES
  fn,          \* the function being executed (what ReadFunction returned)
  cancel,      \* host->GetCancelAsyncValue(): Null or CancelValue
  pre_cancel,  \* the execution was cancelled before Execute was called
  value,       \* RegisterInfo::value of each register
  arguments_not_ready,   \* KernelInfo::arguments_not_ready of each kernel
  state,       \* state of each non-indirect AsyncValue ("None": not made yet)
  forward,     \* the value an IndirectAsyncValue was forwarded to, or Null
  refcount,    \* reference count of each AsyncValue
  orphan,      \* sum of the reference counts of the IndirectAsyncValues
               \* that lost their compare_exchange
  th,          \* per thread: program counter, worklist and locals
  exec_refs,   \* reference count of the BEFExecutor (0: not alive)
  keep_alive,  \* values carrying a no-op AndThen that holds the handler
  results,     \* the caller's results array
  released,    \* which results[i] the caller has released
  invoked,     \* per kernel: how often its implementation was invoked
  fired,       \* per kernel: how many fetch_sub returned 1
  zero_hits,   \* per kernel: how often arguments_not_ready became 0
  pops,        \* number of worklist pops made by the caller's thread
  assert_failed  \* the assertions of the code that have failed so far

vars ==
  <<fn, cancel, pre_cancel, value, arguments_not_ready, state, forward, refcount, orphan,
    th, exec_refs, keep_alive, results, released, invoked, fired, zero_hits,
    pops, assert_failed>>

-----------------------------------------------------------------------------
(* Views of the loaded function. *)

Regs == 0 .. fn.nregs - 1
KernelIds == 0 .. Len(fn.kernels) - 1
Kern(k) == fn.kernels[k + 1]
ResultIdx == 0 .. Len(fn.result_regs) - 1
ResultReg(i) == fn.result_regs[i + 1]
Threads == {Main} \cup Regs
Values == {Val(r) : r \in Regs} \cup {Ind(r) : r \in Regs} \cup {CancelValue}

has_arguments_pseudo_kernel == fn.nargs > 0
IsPseudoKernel(k) == has_arguments_pseudo_kernel /\ k = 0

InSeq(x, s) == \E j \in 1..Len(s) : s[j] = x

\* The used-by list of register r: the ids of the kernels that take r as an
\* argument, in increasing order.
RECURSIVE UsedBysFrom(_, _)
UsedBysFrom(r, k) ==
  IF k >= Len(fn.kernels) THEN <<>>
  ELSE (IF InSeq(r, Kern(k).arguments) THEN <<k>> ELSE <<>>) \o
       UsedBysFrom(r, k + 1)
UsedBys(r) == UsedBysFrom(r, 0)

\* RegisterInfo::user_count: uses as a kernel argument plus exports as a
\* function result.
user_count(r) ==
  Len(UsedBys(r)) + Cardinality({i \in ResultIdx : ResultReg(i) = r})

\* KernelInfo::arguments_not_ready as the loader initialises it.
InitialNotReady(k) == Len(Kern(k).arguments) + 1

-----------------------------------------------------------------------------
(* The AsyncValue primitive (tfrt/host_context/async_value.h). *)

IsAvailable(s) == s \in {"Concrete", "Error"}

\* AsyncValue::state(): an IndirectAsyncValue has the state of the value it
\* was forwarded to, and is Unavailable before.
RECURSIVE StateOf(_, _, _)
StateOf(stf, fwdf, v) ==
  IF v = CancelValue THEN "Error"
  ELSE IF IsIndirect(v)
       THEN (IF fwdf[v[2]] = Null THEN "Unavailable"
             ELSE StateOf(stf, fwdf, fwdf[v[2]]))
       ELSE stf[v[2]]

State(v) == StateOf(state, forward, v)

AddRef(rcf, v, n) == [rcf EXCEPT ![v] = @ + n]

\* DropRef(n).  An IndirectAsyncValue whose count reaches zero is destroyed
\* and releases the reference it holds on the value it was forwarded to.
RECURSIVE DropRef(_, _, _, _)
DropRef(rcf, fwdf, v, n) ==
  LET c == rcf[v] - n IN
  IF n > 0 /\ c = 0 /\ IsIndirect(v) /\ fwdf[v[2]] # Null
  THEN DropRef([rcf EXCEPT ![v] = 0], fwdf, fwdf[v[2]], 1)
  ELSE [rcf EXCEPT ![v] = c]

RECURSIVE DropRefAll(_, _, _)
DropRefAll(rcf, fwdf, vs) ==
  IF vs = <<>> THEN rcf
  ELSE DropRefAll(DropRef(rcf, fwdf, Head(vs), 1), fwdf, Tail(vs))

RECURSIVE AddRefAll(_, _)
AddRefAll(rcf, vs) ==
  IF vs = <<>> THEN rcf ELSE AddRefAll(AddRef(rcf, Head(vs), 1), Tail(vs))

-----------------------------------------------------------------------------
(* Helper functions of the executor. *)

\* The references GetOrCreateRegisterValue gives a new IndirectAsyncValue
\* before its compare_exchange: the initial one plus user_count.
PlaceholderRefs(u) == 1 + u

\* Faulty variant: the losing IndirectAsyncValue keeps its initial reference.
PlaceholderLoserDropsUsers(u) == u

\* The references GetOrCreateRegisterValue drops from an IndirectAsyncValue
\* that lost the compare_exchange.
PlaceholderLoserDrop(u) == u + 1

\* Faulty variant: a plain store instead of the compare_exchange.
PlaceholderStored(existing) == TRUE

\* The outcome of GetOrCreateRegisterValue's compare_exchange on a register
\* that holds `existing`.
PlaceholderWins(existing) == existing = Null

\* GetOrCreateRegisterValue from its compare_exchange on: the register was
\* read as null by the load, modelled by the caller.
GetOrCreateCAS(regf, rcf, orph, r) ==
  IF PlaceholderWins(regf[r])
  THEN [value |-> [regf EXCEPT ![r] = Ind(r)],
        refcount |-> [rcf EXCEPT ![Ind(r)] = PlaceholderRefs(user_count(r))],
        orphan |-> orph,
        ret |-> Ind(r)]
  ELSE [value |-> regf,
        refcount |-> rcf,
        orphan |-> orph + PlaceholderRefs(user_count(r))
                         - PlaceholderLoserDrop(user_count(r)),
        ret |-> regf[r]]

\* The references SetRegisterValue adds to new_value before its
\* compare_exchange.
SpeculativeRefs(u) == u - 1

\* The references SetRegisterValue takes back when the compare_exchange
\* failed.
SpeculativeRevert(u) == u - 1

\* Faulty variant: the result replaces whatever the register holds.
SetRegisterOverwrites(existing) == TRUE

\* The outcome of SetRegisterValue's compare_exchange on a register that
\* holds `existing`.
SetRegisterWins(existing) == existing = Null

SetRegisterValue(regf, rcf, fwdf, r, new_value) ==
  LET u == user_count(r)
      existing == regf[r]
      spec == AddRef(rcf, new_value, SpeculativeRefs(u))
  IN
  IF SetRegisterWins(existing)
  THEN [value |-> [regf EXCEPT ![r] = new_value],
        refcount |-> spec,
        forward |-> fwdf,
        ret |-> new_value,
        register_already_set |-> FALSE,
        cast_ok |-> TRUE]
  ELSE [value |-> regf,
        refcount |-> DropRef(spec, fwdf, new_value, SpeculativeRevert(u)),
        forward |-> IF IsIndirect(existing)
                    THEN [fwdf EXCEPT ![existing[2]] = new_value]
                    ELSE fwdf,
        ret |-> existing,
        register_already_set |-> TRUE,
        cast_ok |-> IsIndirect(existing) /\ fwdf[existing[2]] = Null]

\* Faulty variant: the loop is never entered.
AccelContinuesNever(not_ready_count) == FALSE

\* Faulty variant: the loop runs until the counter is 1, from either side.
AccelContinuesUnlessOne(not_ready_count) == not_ready_count # 1

\* The loop condition of SetKernelsWithErrorInputReady.
AccelContinues(not_ready_count) == not_ready_count > 1
AccelTarget == 1

\* Faulty variant: every decrement at or below 1 fires the kernel.
ReadinessGateAtMostOne(prior) == prior <= 1

\* The readiness gate: the value fetch_sub returned makes the kernel fire.
ReadinessGate(prior) == prior = 1

\* Faulty variant: any_error_argument starts as nullptr.
CancelProbeSkipped(c) == Null

\* The cancellation probe: the value any_error_argument is initialised with.
CancelProbe(c) == c

\* Faulty variant: the first value recorded is kept.
ErrorArgumentFirst(any_error_argument, v, s) ==
  IF s = "Error" /\ any_error_argument = Null THEN v ELSE any_error_argument

\* Faulty variant: an argument in error is not recorded.
ErrorArgumentIgnored(any_error_argument, v, s) == any_error_argument

\* if (value->IsError()) any_error_argument = value.
ErrorArgument(any_error_argument, v, s) ==
  IF s = "Error" THEN v ELSE any_error_argument

\* Faulty variant: the non-strict bit is not consulted.
RunsKernelIfGood(any_error_argument, is_nonstrict_kernel) ==
  any_error_argument = Null

\* Faulty variant: every kernel that fires is run.
RunsKernelAlways(any_error_argument, is_nonstrict_kernel) == TRUE

\* "If all arguments are good or if the kernel is non-strict, run the
\* function".
RunsKernel(any_error_argument, is_nonstrict_kernel) ==
  any_error_argument = Null \/ is_nonstrict_kernel

\* Faulty variant: a result slot of a skipped kernel gets a value of its own.
PropagatedOwnValue(any_error_argument, r) == Val(r)

\* kernel_frame.SetResultAt(i, FormRef(any_error_argument)): what the result
\* slot for register r holds when the kernel is not run.
PropagatedError(any_error_argument, r) == any_error_argument

\* Faulty variant: every result takes the asynchronous path.
DispatchLater(s) == FALSE

\* Faulty variant: the users join the worklist whatever the state is.
DispatchAlways(s) == TRUE

\* ProcessUsedBys: the users can be processed at once.
DispatchNow(s) == IsAvailable(s)

\* Faulty variant: the users of an error wait like those of any value.
AcceleratesNever(s) == FALSE

\* ProcessUsedBys: the error propagation is accelerated.
Accelerates(s) == s = "Error"

-----------------------------------------------------------------------------
(* Threads. *)

\* The locals of a thread that is not inside a kernel's firing.
NoLocals ==
  [pc |-> "none", kernel_ids |-> <<>>, kernel_id |-> 0, caller |-> "none",
   arguments |-> <<>>, cancel_probe |-> Null, any_error_argument |-> Null,
   frame_results |-> <<>>,
   result_number |-> 0, register_value |-> Null,
   register_already_set |-> FALSE, state |-> "None", i |-> 0,
   not_ready_count |-> 0]

At(l, pc, kernel_ids) == [NoLocals EXCEPT !.pc = pc, !.kernel_ids = kernel_ids]

StateSet == {"Unavailable", "Concrete", "Error"}

Init ==
  /\ fn \in Functions
  /\ cancel \in {Null, CancelValue}
  /\ pre_cancel = (cancel # Null)
  /\ value = [r \in Regs |-> Null]
  /\ arguments_not_ready = [k \in KernelIds |-> InitialNotReady(k)]
  /\ state \in [Regs -> StateSet \cup {"None"}]
  /\ \A r \in Regs : state[r] = "None" <=> r >= fn.nargs
  /\ forward = [r \in Regs |-> Null]
  /\ refcount = [v \in Values |->
                   IF v = CancelValue \/ (v[1] = "value" /\ v[2] < fn.nargs)
                   THEN CallerRefs ELSE 0]
  /\ orphan = 0
  /\ th = [t \in Threads |->
             IF t = Main THEN At(NoLocals, "Execute", <<>>) ELSE NoLocals]
  /\ exec_refs = 0
  /\ keep_alive = {}
  /\ results = [i \in ResultIdx |-> Null]
  /\ released = {}
  /\ invoked = [k \in KernelIds |-> 0]
  /\ fired = [k \in KernelIds |-> 0]
  /\ zero_hits = [k \in KernelIds |-> 0]
  /\ pops = 0
  /\ assert_failed = {}

-----------------------------------------------------------------------------
(* BEFExecutor::Execute up to the firing loop: ReadFunction's verdict,     *)
(* InitializeArgumentRegisters and the constructor's seeding of the        *)
(* worklist.  The back of the worklist is the end of the sequence.         *)

\* Faulty variant: the ids are pushed in increasing order.
SeedInOrder == [j \in 1..Len(fn.kernels) |-> j - 1]

\* kernel_ids_to_visit as the constructor fills it: e-1, ..., 1, 0.
SeedWorklist == [j \in 1..Len(fn.kernels) |-> Len(fn.kernels) - j]

\* Faulty variant: back() where pop_back_val() is meant.
PopBackKeeps(s) == s

PopBack(s) == SubSeq(s, 1, Len(s) - 1)

Back(s) == s[Len(s)]

\* Faulty variant: the argument is stored without a reference for its users.
ArgumentRefsNone(u) == 0

\* InitializeArgumentRegisters: the references added to argument i.
ArgumentRefs(u) == u

\* Faulty variant: Execute goes on with an empty kernel stream.
KernelsEmptyIgnored(kernels) == FALSE

\* "if (kernels.empty()) return;".
KernelsEmpty(kernels) == Len(kernels) = 0

Execute ==
  /\ th[Main].pc = "Execute"
  /\ IF KernelsEmpty(fn.kernels)
     THEN /\ th' = [th EXCEPT ![Main] = At(@, "Returned", <<>>)]
          /\ UNCHANGED <<value, refcount, exec_refs, assert_failed>>
     ELSE /\ value' = [r \in Regs |-> IF r < fn.nargs THEN Val(r) ELSE Null]
          /\ refcount' = [v \in Values |->
                IF v[1] = "value" /\ v[2] < fn.nargs
                THEN refcount[v] + ArgumentRefs(user_count(v[2]))
                ELSE refcount[v]]
          /\ exec_refs' = 1
          /\ IF has_arguments_pseudo_kernel
             THEN /\ th' = [th EXCEPT ![Main] =
                      [At(@, "ProcessArgs", PopBack(SeedWorklist))
                         EXCEPT !.caller = "args"]]
                  /\ assert_failed' = assert_failed \cup
                       (IF SeedWorklist # <<>> /\ Back(SeedWorklist) = 0
                        THEN {} ELSE {"back"})
             ELSE /\ th' = [th EXCEPT ![Main] = At(@, "Loop", SeedWorklist)]
                  /\ UNCHANGED assert_failed
  /\ UNCHANGED <<fn, cancel, pre_cancel, arguments_not_ready, state, forward, orphan,
                 keep_alive, results, released, invoked, fired, zero_hits,
                 pops>>

-----------------------------------------------------------------------------
(* BEFExecutor::ProcessUsedBys.  l is the calling thread's locals, r the   *)
(* register of the result, v the AsyncValue passed as `result`; rcf and    *)
(* fwdf are the reference counts and forwardings the caller has produced   *)
(* so far in the same step.                                                *)

\* The register of the result the thread is processing.
CurrentReg(l) == Kern(l.kernel_id).results[l.result_number + 1]

\* Back in the caller's loop over the results, after ProcessUsedBys.
AfterUsedBys(l) ==
  IF l.result_number + 1 < Len(Kern(l.kernel_id).results)
  THEN [l EXCEPT !.result_number = @ + 1,
                 !.pc = IF l.caller = "args" THEN "ProcessArgs" ELSE "Publish",
                 !.register_value = Null, !.register_already_set = FALSE,
                 !.state = "None", !.i = 0, !.not_ready_count = 0]
  ELSE At(l, "Loop", l.kernel_ids)

\* "DropRef since we no longer need the IndirectAsyncValue in the register",
\* after ProcessUsedBys has returned.
AfterDispatchRefs(l, rcf, fwdf) ==
  IF l.register_already_set THEN DropRef(rcf, fwdf, l.register_value, 1)
  ELSE rcf

\* Faulty variant: the continuation holds no reference to the executor.
ExecutorRefsKept(n) == n

\* "Keep this executor alive until the kernel runs": AddRef().
ExecutorAddRef(n) == n + 1

\* From the availability test on: the users join the worklist, or a
\* continuation that holds a reference to the executor is registered.
DispatchTail(t, l, rcf, fwdf) ==
  /\ refcount' = AfterDispatchRefs(l, rcf, fwdf)
  /\ IF DispatchNow(l.state)
     THEN /\ th' = [th EXCEPT ![t] =
                AfterUsedBys([l EXCEPT !.kernel_ids = @ \o UsedBys(CurrentReg(l))])]
          /\ UNCHANGED exec_refs
     ELSE /\ th' = [th EXCEPT ![t] = AfterUsedBys(l),
                              ![CurrentReg(l)] = At(NoLocals, "waiting", <<>>)]
          /\ exec_refs' = ExecutorAddRef(exec_refs)

\* Faulty variant: no continuation is attached to an unavailable result.
MaybeAddRefSkipped(keep, s, v) == keep

\* MaybeAddRefForResult.
MaybeAddRefForResult(keep, s, v) == IF IsAvailable(s) THEN keep ELSE keep \cup {v}

\* From the entry of ProcessUsedBys to the test of the state.
ProcessUsedBys(t, l0, v, rcf, fwdf) ==
  LET s == StateOf(state, fwdf, v)
      l == [l0 EXCEPT !.state = s]
  IN
  IF Len(UsedBys(CurrentReg(l))) = 0
  THEN /\ keep_alive' = MaybeAddRefForResult(keep_alive, s, v)
       /\ refcount' = AfterDispatchRefs(l, rcf, fwdf)
       /\ th' = [th EXCEPT ![t] = AfterUsedBys(l)]
       /\ UNCHANGED exec_refs
  ELSE IF Accelerates(s)
  THEN /\ th' = [th EXCEPT ![t] = [l EXCEPT !.pc = "AccelLoad", !.i = 0]]
       /\ refcount' = rcf
       /\ UNCHANGED <<exec_refs, keep_alive>>
  ELSE /\ DispatchTail(t, l, rcf, fwdf)
       /\ UNCHANGED keep_alive

\* ProcessArgumentsPseudoKernel: one iteration of its loop over the results
\* of kernel 0.
ProcessArgs(t) ==
  LET l == th[t]
      r == CurrentReg(l)
  IN
  /\ l.pc = "ProcessArgs"
  /\ IF user_count(r) = 0
     THEN /\ th' = [th EXCEPT ![t] = AfterUsedBys(l)]
          /\ UNCHANGED <<refcount, exec_refs, keep_alive, assert_failed>>
     ELSE /\ ProcessUsedBys(t, [l EXCEPT !.register_value = value[r]],
                            value[r], refcount, forward)
          /\ assert_failed' = assert_failed \cup
               (IF value[r] = Null THEN {"argument"} ELSE {})
  /\ UNCHANGED <<fn, cancel, pre_cancel, value, arguments_not_ready, state, forward,
                 orphan, results, released, invoked, fired, zero_hits,
                 pops>>

-----------------------------------------------------------------------------
(* SetKernelsWithErrorInputReady, one atomic operation at a time.          *)

AccelKernel(l) == UsedBys(CurrentReg(l))[l.i + 1]

\* The next kernel of the list, or the rest of ProcessUsedBys.
AccelNext(t, l) ==
  IF l.i + 1 < Len(UsedBys(CurrentReg(l)))
  THEN /\ th' = [th EXCEPT ![t] =
             [l EXCEPT !.pc = "AccelLoad", !.i = @ + 1, !.not_ready_count = 0]]
       /\ UNCHANGED <<refcount, exec_refs>>
  ELSE DispatchTail(t, l, refcount, forward)

\* arguments_not_ready.load and the first test of the loop condition.
AccelLoad(t) ==
  LET l == th[t]
      n == arguments_not_ready[AccelKernel(l)]
  IN
  /\ l.pc = "AccelLoad"
  /\ IF AccelContinues(n)
     THEN /\ th' = [th EXCEPT ![t] =
                [l EXCEPT !.pc = "AccelCAS", !.not_ready_count = n]]
          /\ UNCHANGED <<refcount, exec_refs>>
     ELSE AccelNext(t, l)
  /\ UNCHANGED <<fn, cancel, pre_cancel, value, arguments_not_ready, state, forward,
                 orphan, keep_alive, results, released, invoked, fired,
                 zero_hits, pops, assert_failed>>

\* compare_exchange_weak(not_ready_count, 1) and the next test of the loop
\* condition.
AccelCAS(t) ==
  LET l == th[t]
      k == AccelKernel(l)
      n == arguments_not_ready[k]
  IN
  /\ l.pc = "AccelCAS"
  /\ IF n = l.not_ready_count
     THEN /\ arguments_not_ready' = [arguments_not_ready EXCEPT ![k] = AccelTarget]
          /\ zero_hits' = [zero_hits EXCEPT ![k] = @ + (IF AccelTarget = 0 THEN 1 ELSE 0)]
          /\ AccelNext(t, l)
     ELSE /\ UNCHANGED <<arguments_not_ready, zero_hits>>
          /\ IF AccelContinues(n)
             THEN /\ th' = [th EXCEPT ![t] = [l EXCEPT !.not_ready_count = n]]
                  /\ UNCHANGED <<refcount, exec_refs>>
             ELSE AccelNext(t, l)
  /\ UNCHANGED <<fn, cancel, pre_cancel, value, state, forward, orphan, keep_alive,
                 results, released, invoked, fired, pops, assert_failed>>

-----------------------------------------------------------------------------
(* BEFExecutor::DecrementArgumentsNotReadyCounts.                          *)

\* pop_back_val, fetch_sub(1) and, when the kernel is ready, the
\* cancellation probe.
LoopPop(t) ==
  LET l == th[t]
      k == Back(l.kernel_ids)
      prior == arguments_not_ready[k]
      rest == PopBack(l.kernel_ids)
  IN
  /\ l.pc = "Loop"
  /\ l.kernel_ids # <<>>
  /\ arguments_not_ready' = [arguments_not_ready EXCEPT ![k] = prior - 1]
  /\ zero_hits' = [zero_hits EXCEPT ![k] = @ + (IF prior - 1 = 0 THEN 1 ELSE 0)]
  /\ pops' = pops + (IF t = Main THEN 1 ELSE 0)
  /\ IF ReadinessGate(prior)
     THEN /\ fired' = [fired EXCEPT ![k] = @ + 1]
          /\ th' = [th EXCEPT ![t] =
                [At(l, IF Len(Kern(k).arguments) > 0 THEN "Bind" ELSE "Fire", rest)
                   EXCEPT !.kernel_id = k, !.caller = "kernel",
                          !.cancel_probe = cancel,
                          !.any_error_argument = CancelProbe(cancel)]]
     ELSE /\ th' = [th EXCEPT ![t] = At(l, "Loop", rest)]
          /\ UNCHANGED fired
  /\ UNCHANGED <<fn, cancel, pre_cancel, value, state, forward, refcount, orphan,
                 exec_refs, keep_alive, results, released, invoked,
                 assert_failed>>

\* The register of the argument the thread binds next.
BindReg(l) == Kern(l.kernel_id).arguments[Len(l.arguments) + 1]

\* kernel_frame.AddArg(value); if (value->IsError()) any_error_argument = value.
Bound(l, v) ==
  [l EXCEPT !.arguments = Append(@, v),
            !.any_error_argument = ErrorArgument(@, v, State(v)),
            !.pc = IF Len(l.arguments) + 1 = Len(Kern(l.kernel_id).arguments)
                   THEN "Fire" ELSE "Bind"]

\* GetOrCreateRegisterValue for the next argument: the load.
BindLoad(t) ==
  LET l == th[t]
      v == value[BindReg(l)]
  IN
  /\ l.pc = "Bind"
  /\ th' = [th EXCEPT ![t] = IF v # Null THEN Bound(l, v)
                                ELSE [l EXCEPT !.pc = "BindCAS"]]
  /\ UNCHANGED <<fn, cancel, pre_cancel, value, arguments_not_ready, state, forward,
                 refcount, orphan, exec_refs, keep_alive, results, released,
                 invoked, fired, zero_hits, pops, assert_failed>>

\* GetOrCreateRegisterValue for the next argument: the IndirectAsyncValue
\* and the compare_exchange.
BindCAS(t) ==
  LET l == th[t]
      g == GetOrCreateCAS(value, refcount, orphan, BindReg(l))
  IN
  /\ l.pc = "BindCAS"
  /\ value' = g.value
  /\ refcount' = g.refcount
  /\ orphan' = g.orphan
  /\ th' = [th EXCEPT ![t] = Bound(l, g.ret)]
  /\ UNCHANGED <<fn, cancel, pre_cancel, arguments_not_ready, state, forward, exec_refs,
                 keep_alive, results, released, invoked, fired, zero_hits,
                 pops, assert_failed>>

\* The kernel implementation is invoked and returns a new AsyncValue with
\* one reference in every result slot, in any state; or the error argument
\* is propagated to every result slot.  Then the arguments are released.
Fire(t) ==
  LET l == th[t]
      k == l.kernel_id
      res == Kern(k).results
      next == IF Len(res) > 0 THEN "Publish" ELSE "Loop"
  IN
  /\ l.pc = "Fire"
  /\ IF RunsKernel(l.any_error_argument, Kern(k).nonstrict)
     THEN \E rs \in [1..Len(res) -> StateSet] :
          LET made == [j \in 1..Len(res) |-> Val(res[j])] IN
          /\ state' = [r \in Regs |->
                IF InSeq(r, res)
                THEN rs[CHOOSE j \in 1..Len(res) : res[j] = r]
                ELSE state[r]]
          /\ refcount' = DropRefAll(AddRefAll(refcount, made), forward,
                                    l.arguments)
          /\ invoked' = [invoked EXCEPT ![k] = @ + 1]
          /\ th' = [th EXCEPT ![t] =
                [l EXCEPT !.pc = next, !.frame_results = made,
                          !.result_number = 0]]
     ELSE LET made == [j \in 1..Len(res) |->
                         PropagatedError(l.any_error_argument, res[j])] IN
          /\ refcount' = DropRefAll(AddRefAll(refcount, made), forward,
                                    l.arguments)
          /\ th' = [th EXCEPT ![t] =
                [l EXCEPT !.pc = next, !.frame_results = made,
                          !.result_number = 0]]
          /\ UNCHANGED <<state, invoked>>
  /\ UNCHANGED <<fn, cancel, pre_cancel, value, arguments_not_ready, forward, orphan,
                 exec_refs, keep_alive, results, released, fired, zero_hits,
                 pops, assert_failed>>

\* One iteration of the loop that publishes the results.
Publish(t) ==
  LET l == th[t]
      r == CurrentReg(l)
      result == l.frame_results[l.result_number + 1]
      sr == SetRegisterValue(value, refcount, forward, r, result)
      ok == value[r] = Null \/
            (IsIndirect(value[r]) /\ forward[value[r][2]] = Null)
  IN
  /\ l.pc = "Publish"
  /\ IF user_count(r) = 0
     THEN /\ keep_alive' = MaybeAddRefForResult(keep_alive, State(result), result)
          /\ refcount' = DropRef(refcount, forward, result, 1)
          /\ th' = [th EXCEPT ![t] = AfterUsedBys(l)]
          /\ assert_failed' = assert_failed \cup
               (IF ok THEN {} ELSE {"register"})
          /\ UNCHANGED <<value, forward, exec_refs>>
     ELSE /\ value' = sr.value
          /\ forward' = sr.forward
          /\ assert_failed' = assert_failed \cup
               (IF ok THEN {} ELSE {"register"}) \cup
               (IF sr.cast_ok THEN {} ELSE {"cast"})
          /\ ProcessUsedBys(t,
               [l EXCEPT !.register_value = sr.ret,
                         !.register_already_set = sr.register_already_set],
               sr.ret, sr.refcount, sr.forward)
  /\ UNCHANGED <<fn, cancel, pre_cancel, arguments_not_ready, state, orphan, results,
                 released, invoked, fired, zero_hits, pops>>

\* The worklist is empty: the firing loop returns.  A continuation then
\* releases its reference to the executor; Execute goes on to its results.
LoopDone(t) ==
  LET l == th[t] IN
  /\ l.pc = "Loop"
  /\ l.kernel_ids = <<>>
  /\ IF t = Main
     THEN /\ th' = [th EXCEPT ![t] =
                At(l, IF Len(fn.result_regs) > 0 THEN "Export" ELSE "DropRef",
                   <<>>)]
          /\ UNCHANGED exec_refs
     ELSE /\ th' = [th EXCEPT ![t] = At(l, "done", <<>>)]
          /\ exec_refs' = exec_refs - 1
  /\ UNCHANGED <<fn, cancel, pre_cancel, value, arguments_not_ready, state, forward,
                 refcount, orphan, keep_alive, results, released, invoked,
                 fired, zero_hits, pops, assert_failed>>

\* The AsyncValue a continuation waits for has become available: AndThen
\* runs the closure, which enters the firing loop with the used-by list.
ContinuationRun(r) ==
  /\ th[r].pc = "waiting"
  /\ IsAvailable(State(value[r]))
  /\ th' = [th EXCEPT ![r] = At(@, "Loop", UsedBys(r))]
  /\ UNCHANGED <<fn, cancel, pre_cancel, value, arguments_not_ready, state, forward,
                 refcount, orphan, exec_refs, keep_alive, results, released,
                 invoked, fired, zero_hits, pops, assert_failed>>

-----------------------------------------------------------------------------
(* BEFExecutor::Execute after the constructor: the function results and    *)
(* the release of the bootstrap reference.                                 *)

\* results[i] = TakeRef(value), then the next result or the final DropRef.
Exported(l, v) ==
  [l EXCEPT !.result_number = @ + 1,
            !.pc = IF l.result_number + 1 < Len(fn.result_regs)
                   THEN "Export" ELSE "DropRef"]

\* GetOrCreateRegisterValue for results[i]: the load.
Export ==
  LET l == th[Main]
      i == l.result_number
      v == value[ResultReg(i)]
  IN
  /\ l.pc = "Export"
  /\ IF v # Null
     THEN /\ results' = [results EXCEPT ![i] = v]
          /\ th' = [th EXCEPT ![Main] = Exported(l, v)]
          /\ assert_failed' = assert_failed \cup
               (IF results[i] = Null THEN {} ELSE {"result"})
     ELSE /\ th' = [th EXCEPT ![Main] = [l EXCEPT !.pc = "ExportCAS"]]
          /\ UNCHANGED <<results, assert_failed>>
  /\ UNCHANGED <<fn, cancel, pre_cancel, value, arguments_not_ready, state, forward,
                 refcount, orphan, exec_refs, keep_alive, released, invoked,
                 fired, zero_hits, pops>>

\* GetOrCreateRegisterValue for results[i]: the IndirectAsyncValue and the
\* compare_exchange.
ExportCAS ==
  LET l == th[Main]
      i == l.result_number
      g == GetOrCreateCAS(value, refcount, orphan, ResultReg(i))
  IN
  /\ l.pc = "ExportCAS"
  /\ value' = g.value
  /\ refcount' = g.refcount
  /\ orphan' = g.orphan
  /\ results' = [results EXCEPT ![i] = g.ret]
  /\ th' = [th EXCEPT ![Main] = Exported(l, g.ret)]
  /\ UNCHANGED <<fn, cancel, pre_cancel, arguments_not_ready, state, forward, exec_refs,
                 keep_alive, released, invoked, fired, zero_hits, pops,
                 assert_failed>>

\* exec->DropRef() and the return of Execute.
ExecDropRef ==
  /\ th[Main].pc = "DropRef"
  /\ exec_refs' = exec_refs - 1
  /\ th' = [th EXCEPT ![Main] = At(@, "Returned", <<>>)]
  /\ UNCHANGED <<fn, cancel, pre_cancel, value, arguments_not_ready, state, forward,
                 refcount, orphan, keep_alive, results, released, invoked,
                 fired, zero_hits, pops, assert_failed>>

-----------------------------------------------------------------------------
(* The environment: the producers of pending values, the host and the      *)
(* caller.                                                                 *)

\* A pending function argument or kernel result is resolved by its producer.
Resolve(r) ==
  /\ state[r] = "Unavailable"
  /\ \E s \in {"Concrete", "Error"} : state' = [state EXCEPT ![r] = s]
  /\ UNCHANGED <<fn, cancel, pre_cancel, value, arguments_not_ready, forward, refcount,
                 orphan, th, exec_refs, keep_alive, results, released,
                 invoked, fired, zero_hits, pops, assert_failed>>

\* The host cancels the execution while it runs.
Cancel ==
  /\ cancel = Null
  /\ th[Main].pc # "Execute"
  /\ cancel' = CancelValue
  /\ UNCHANGED <<fn, pre_cancel, value, arguments_not_ready, state, forward, refcount,
                 orphan, th, exec_refs, keep_alive, results, released,
                 invoked, fired, zero_hits, pops, assert_failed>>

\* After Execute has returned the caller releases a result it was given.
ReleaseResult(i) ==
  /\ th[Main].pc = "Returned"
  /\ results[i] # Null
  /\ i \notin released
  /\ released' = released \cup {i}
  /\ refcount' = DropRef(refcount, forward, results[i], 1)
  /\ UNCHANGED <<fn, cancel, pre_cancel, value, arguments_not_ready, state, forward,
                 orphan, th, exec_refs, keep_alive, results, invoked, fired,
                 zero_hits, pops, assert_failed>>

-----------------------------------------------------------------------------

\* A step of thread t inside the executor.
ThreadStep(t) ==
  \/ ProcessArgs(t)
  \/ LoopPop(t)
  \/ BindLoad(t)
  \/ BindCAS(t)
  \/ Fire(t)
  \/ Publish(t)
  \/ AccelLoad(t)
  \/ AccelCAS(t)
  \/ LoopDone(t)

\* A step of the caller's thread inside Execute.
MainStep ==
  \/ Execute
  \/ ThreadStep(Main)
  \/ Export
  \/ ExportCAS
  \/ ExecDropRef

Next ==
  \/ MainStep
  \/ \E r \in Regs : ContinuationRun(r)
  \/ \E r \in Regs : ThreadStep(r)
  \/ \E r \in Regs : Resolve(r)
  \/ Cancel
  \/ \E i \in ResultIdx : ReleaseResult(i)

Spec == Init /\ [][Next]_vars

-----------------------------------------------------------------------------
(* State predicates used by the properties. *)

\* Execute has returned to its caller.
Returned == th[Main].pc = "Returned"

\* All asynchronous activity has settled: Execute has returned, no value is
\* pending and no continuation is registered or running.
Settled ==
  /\ Returned
  /\ \A r \in Regs : state[r] # "Unavailable"
  /\ \A r \in Regs : th[r].pc \in {"none", "done"}

\* The caller has released every result it was given.
AllReleased == \A i \in ResultIdx : results[i] # Null => i \in released

\* The references a value has apart from the executor's: the caller's on a
\* function argument, the host's on the cancel sentinel.
BaseRefs(v) ==
  IF v = CancelValue \/ (v[1] = "value" /\ v[2] < fn.nargs)
  THEN CallerRefs ELSE 0

\* The value an AsyncValue resolves to: the end of its forwarding chain.
RECURSIVE Resolved(_)
Resolved(v) ==
  IF IsIndirect(v) /\ forward[v[2]] # Null THEN Resolved(forward[v[2]]) ELSE v

\* The kernel that produces register r.
Producer(r) == CHOOSE k \in KernelIds : InSeq(r, Kern(k).results)

IsStrictKernel(k) == ~IsPseudoKernel(k) /\ ~Kern(k).nonstrict

-----------------------------------------------------------------------------
(* Fairness: the caller's thread keeps running, a continuation runs once   *)
(* its value is available and then keeps running, and every pending value  *)
(* is eventually resolved by its producer.  Every thread takes finitely     *)
(* many steps and every value is resolved once, so no thread can starve     *)
(* another and weak fairness of their union is weak fairness of each.       *)
(* The host cancels before the call or not at all here, and the caller's   *)
(* release of the results, which resolves nothing, is left out.            *)

Progress ==
  \/ MainStep
  \/ \E r \in Regs : ContinuationRun(r) \/ ThreadStep(r)
  \/ \E r \in Regs : Resolve(r)

FairSpec == Init /\ [][Progress]_vars /\ WF_vars(Progress)

-----------------------------------------------------------------------------
(* Properties. *)

\* C1: at the moment Execute returns, every results[i] is non-empty,
\* whatever the function loader returned.
C1_ResultsNonEmptyOnReturn ==
  Returned => \A i \in ResultIdx : results[i] # Null

\* Every result handed out by Execute is Concrete or Error.
HandedOutResolved ==
  \A i \in ResultIdx : results[i] # Null => IsAvailable(State(results[i]))

\* C2: under fairness, once Execute has returned every results[i] it handed
\* out eventually is Concrete or Error, directly or through the forwarding
\* of its placeholder.
C2_ResultsEventuallyResolve == Returned ~> HandedOutResolved

\* A result was handed out as a placeholder and has resolved by forwarding.
C2_Witness ==
  /\ Returned
  /\ \E i \in ResultIdx :
       /\ results[i] = Ind(ResultReg(i))
       /\ IsAvailable(State(results[i]))

\* Some function argument is in the Error state.
SomeArgumentError == \E r \in Regs : r < fn.nargs /\ state[r] = "Error"

\* C3 as stated: if some function argument is Error then, once settled,
\* every function result is Error.
C3_AnyErrorArgumentAllResultsError ==
  (Settled /\ SomeArgumentError) =>
    \A i \in ResultIdx : results[i] # Null => State(results[i]) = "Error"

\* Register r is an Error function argument or is computed from one through
\* strict kernels only.
RECURSIVE Tainted(_)
Tainted(r) ==
  IF r < fn.nargs THEN state[r] = "Error"
  ELSE /\ IsStrictKernel(Producer(r))
       /\ \E j \in 1..Len(Kern(Producer(r)).arguments) :
            Tainted(Kern(Producer(r)).arguments[j])

\* C3 amended: once settled, every function result that is an Error
\* argument or is computed from one through strict kernels only is Error.
C3_StrictPathPropagatesError ==
  Settled =>
    \A i \in ResultIdx :
      (results[i] # Null /\ Tainted(ResultReg(i))) =>
        State(results[i]) = "Error"

\* A kernel's result computed from an Error argument has settled.
C3_Witness ==
  /\ Settled
  /\ \E i \in ResultIdx :
       /\ results[i] # Null
       /\ ResultReg(i) >= fn.nargs
       /\ Tainted(ResultReg(i))

\* The threads that are firing kernel k.
Firing(k) ==
  {t \in Threads :
     /\ th[t].pc \in {"Bind", "BindCAS", "Fire", "Publish", "AccelLoad", "AccelCAS"}
     /\ th[t].caller = "kernel"
     /\ th[t].kernel_id = k}

\* C4: for every kernel at most one fetch_sub returns 1, so the kernel is
\* fired by one thread and never twice, also when decrements arrive after
\* it has fired; once settled every kernel behind the gate has fired.
C4_FiredByOneThread ==
  \A k \in KernelIds :
    /\ fired[k] <= 1
    /\ invoked[k] <= fired[k]
    /\ Cardinality(Firing(k)) <= 1
    /\ (Settled /\ ~IsPseudoKernel(k)) => fired[k] = 1

\* A kernel has fired and a later decrement has taken its counter below 0.
C4_Witness ==
  \E k \in KernelIds : fired[k] = 1 /\ arguments_not_ready[k] < 0

\* C5 as stated: once settled, every kernel's counter, that of the argument
\* pseudo-kernel included, has been zero at exactly one point.
C5_EveryCounterZeroOnce ==
  Settled => \A k \in KernelIds : zero_hits[k] = 1

\* C5 amended: the counter of every kernel but the argument pseudo-kernel
\* becomes zero at most once, and exactly once when the execution has
\* settled; the pseudo-kernel's counter is never decremented.
C5_RealKernelCounterZeroOnce ==
  \A k \in KernelIds :
    IF IsPseudoKernel(k)
    THEN zero_hits[k] = 0 /\ arguments_not_ready[k] = InitialNotReady(k)
    ELSE zero_hits[k] <= 1 /\ (Settled => zero_hits[k] = 1)

\* A function with the pseudo-kernel has settled, and one of its kernels
\* fired early so that its counter went through zero and below.
C5_Witness ==
  /\ Settled
  /\ has_arguments_pseudo_kernel
  /\ \E k \in KernelIds : zero_hits[k] = 1 /\ arguments_not_ready[k] < 0

\* The arguments bound in a frame that has not released them yet.
BoundArguments(t) ==
  IF th[t].pc \in {"Bind", "BindCAS", "Fire"}
  THEN {th[t].arguments[j] : j \in 1..Len(th[t].arguments)}
  ELSE {}

\* C6: no reference count goes below zero, an IndirectAsyncValue that lost
\* its compare_exchange ends at zero, every value bound in a frame is
\* alive, and once the execution has settled and the caller has released
\* its results every value is back at the count it had before the call:
\* the user_count references each register received were all released.
C6_RefcountConservation ==
  /\ \A v \in Values : refcount[v] >= 0
  /\ orphan = 0
  /\ \A t \in Threads : \A v \in BoundArguments(t) : refcount[v] > 0
  /\ (Settled /\ AllReleased) => \A v \in Values : refcount[v] = BaseRefs(v)

\* Everything has settled and been released in an execution where an
\* IndirectAsyncValue won a register that has consumers and was forwarded.
C6_Witness ==
  /\ Settled
  /\ AllReleased
  /\ \E r \in Regs :
       value[r] = Ind(r) /\ forward[r] # Null /\ Len(UsedBys(r)) > 0

\* Thread t is about to invoke the implementation of its kernel.
WillInvoke(t) ==
  /\ th[t].pc = "Fire"
  /\ RunsKernel(th[t].any_error_argument, Kern(th[t].kernel_id).nonstrict)

FrameArgumentsGood(t) ==
  \A j \in 1..Len(th[t].arguments) : State(th[t].arguments[j]) # "Error"

\* C7 as stated: every argument of an invoked kernel is non-null, and when
\* a strict kernel is invoked the execution is not cancelled and no bound
\* argument is in the Error state.
C7_StrictInvokedNotCancelled ==
  \A t \in Threads :
    WillInvoke(t) =>
      /\ \A j \in 1..Len(th[t].arguments) : th[t].arguments[j] # Null
      /\ IsStrictKernel(th[t].kernel_id) =>
           cancel = Null /\ FrameArgumentsGood(t)

\* C7 amended: every argument of an invoked kernel is non-null, and when a
\* strict kernel is invoked no bound argument is in the Error state and the
\* execution was not cancelled when the kernel's cancellation probe was
\* made; the host may have cancelled since.
C7_StrictInvokedProbedNotCancelled ==
  \A t \in Threads :
    WillInvoke(t) =>
      /\ Len(th[t].arguments) = Len(Kern(th[t].kernel_id).arguments)
      /\ \A j \in 1..Len(th[t].arguments) : th[t].arguments[j] # Null
      /\ IsStrictKernel(th[t].kernel_id) =>
           th[t].cancel_probe = Null /\ FrameArgumentsGood(t)

\* A strict kernel with arguments is about to be invoked after the host
\* has cancelled.
C7_Witness ==
  \E t \in Threads :
    /\ WillInvoke(t)
    /\ IsStrictKernel(th[t].kernel_id)
    /\ Len(th[t].arguments) > 0
    /\ cancel # Null

\* The pops the worklist of the caller's thread can give: the seeded ids
\* after the pseudo-kernel's, and every used-by list once.
RECURSIVE SumUsedBys(_)
SumUsedBys(r) == IF r < 0 THEN 0 ELSE Len(UsedBys(r)) + SumUsedBys(r - 1)
MainPopLimit ==
  Len(fn.kernels)
  - (IF has_arguments_pseudo_kernel /\ Len(fn.kernels) > 0 THEN 1 ELSE 0)
  + SumUsedBys(fn.nregs - 1)

\* C8: the caller's thread is never blocked inside Execute, whatever is
\* still pending, and its firing loop pops a bounded number of ids: the
\* initial firing loop ends and Execute returns without any pending value
\* having to resolve.
C8_InitialLoopNeverWaits ==
  /\ pops <= MainPopLimit
  /\ ~Returned => ENABLED MainStep

\* Execute has returned while a continuation still waits for a value that
\* no one has resolved.
C8_Witness ==
  /\ Returned
  /\ pops > 0
  /\ \E r \in Regs : th[r].pc = "waiting" /\ ~IsAvailable(State(value[r]))

\* C9: a register that is non-null keeps its pointer for ever, and an
\* IndirectAsyncValue is forwarded at most once, and only the one that is
\* in its register.
C9_RegisterSingleAssignment ==
  [][\A r \in Regs :
       /\ value[r] # Null => value'[r] = value[r]
       /\ forward[r] # Null => forward'[r] = forward[r]
       /\ forward'[r] # forward[r] => value[r] = Ind(r)]_vars

\* A register holds the placeholder that won it, and the placeholder has
\* been forwarded to the producer's value.
C9_Witness ==
  \E r \in Regs : value[r] = Ind(r) /\ forward[r] = Val(r)

\* C10 as stated: cancelled before Execute, every result of a multi-kernel
\* function resolves to the cancel value and no kernel implementation is
\* invoked.
C10_PreCancelNothingInvoked ==
  (pre_cancel /\ Len(fn.kernels) >= 2) =>
    /\ \A k \in KernelIds : invoked[k] = 0
    /\ Settled => \A i \in ResultIdx : Resolved(results[i]) = CancelValue

OnlyStrictKernels == \A k \in KernelIds : ~Kern(k).nonstrict

\* C10 amended: cancelled before Execute, no strict kernel's implementation
\* is invoked and every function result produced by a strict kernel is
\* Error once settled; it is the cancel value itself when the function has
\* no non-strict kernel and no function argument is Error.
C10_PreCancelStrictSkipped ==
  (pre_cancel /\ Len(fn.kernels) >= 2) =>
    /\ \A k \in KernelIds : IsStrictKernel(k) => invoked[k] = 0
    /\ Settled =>
         \A i \in ResultIdx :
           (ResultReg(i) >= fn.nargs /\ IsStrictKernel(Producer(ResultReg(i)))) =>
             /\ State(results[i]) = "Error"
             /\ (OnlyStrictKernels /\ ~SomeArgumentError) =>
                  Resolved(results[i]) = CancelValue

\* A pre-cancelled execution has settled with a result that resolved to the
\* cancel value through a placeholder.
C10_Witness ==
  /\ pre_cancel
  /\ Settled
  /\ \E i \in ResultIdx :
       IsIndirect(results[i]) /\ Resolved(results[i]) = CancelValue

\* The kernels whose implementation ran and returned an Error result.
FailedKernels ==
  {k \in KernelIds :
     /\ invoked[k] > 0
     /\ \E j \in 1..Len(Kern(k).results) : state[Kern(k).results[j]] = "Error"}

\* The Error results the implementation of kernel k returned.
FailedValues(k) ==
  {Val(Kern(k).results[j]) :
     j \in {q \in 1..Len(Kern(k).results) : state[Kern(k).results[q]] = "Error"}}

\* Thread t is about to fire a strict kernel that has bound an Error argument.
StrictWithErrorArgument(t) ==
  /\ th[t].pc = "Fire"
  /\ IsStrictKernel(th[t].kernel_id)
  /\ ~FrameArgumentsGood(t)

\* The execution has one source of errors only: one failing kernel, no Error
\* function argument and no cancellation.
SingleFailingKernel ==
  /\ cancel = Null
  /\ ~SomeArgumentError
  /\ Cardinality(FailedKernels) = 1

\* Once settled with a single failing kernel, every function result that is
\* Error and was not written by an implementation is, through forwarding, an
\* Error value the failing kernel returned.
ErrorIdentityAlongChain ==
  (Settled /\ SingleFailingKernel) =>
    \A i \in ResultIdx :
      (/\ results[i] # Null
       /\ ResultReg(i) >= fn.nargs
       /\ IsStrictKernel(Producer(ResultReg(i)))
       /\ invoked[Producer(ResultReg(i))] = 0) =>
        \E k \in FailedKernels : Resolved(results[i]) \in FailedValues(k)

\* The step of a strict kernel that has bound an Error argument: the
\* implementation is not invoked and every result slot holds one of the
\* bound arguments that are in the Error state.
ErrorArgumentPropagated ==
  \A t \in Threads :
    (StrictWithErrorArgument(t) /\ th'[t].pc # "Fire") =>
      /\ invoked' = invoked
      /\ Len(th'[t].frame_results) = Len(Kern(th[t].kernel_id).results)
      /\ \A j \in 1..Len(th'[t].frame_results) :
           /\ InSeq(th'[t].frame_results[j], th[t].arguments)
           /\ State(th'[t].frame_results[j]) = "Error"

\* C11: a strict kernel that fires with an argument in the Error state is
\* not invoked and every one of its result slots is set to that argument
\* value itself; so along a chain of strict kernels below a single failing
\* kernel the function result is the very Error value that kernel returned.
C11_ErrorIdentity ==
  [][ErrorArgumentPropagated]_vars /\ []ErrorIdentityAlongChain

\* A function result below a failing kernel has settled as that kernel's
\* Error value, handed on by a strict kernel that was not invoked.
C11_Witness ==
  /\ Settled
  /\ SingleFailingKernel
  /\ \E i \in ResultIdx :
       /\ results[i] # Null
       /\ ResultReg(i) >= fn.nargs
       /\ invoked[Producer(ResultReg(i))] = 0
       /\ \E k \in FailedKernels : Resolved(results[i]) \in FailedValues(k)

\* The threads that have passed the readiness gate of kernel k and have not
\* yet run or skipped it.
BeforeRun(k) ==
  {t \in Firing(k) : th[t].pc \in {"Bind", "BindCAS", "Fire"}}

\* The threads that publish the results of kernel k.
AfterRun(k) == Firing(k) \ BeforeRun(k)

\* C12: a non-strict kernel that has become fireable is invoked, exactly
\* once, whatever the state of its arguments and of the cancellation, and
\* the results it publishes are those its implementation returned.
C12_NonStrictAlwaysInvoked ==
  \A k \in KernelIds :
    Kern(k).nonstrict =>
      /\ invoked[k] <= 1
      /\ (fired[k] = 1 /\ BeforeRun(k) = {}) => invoked[k] = 1
      /\ \A t \in AfterRun(k) :
           th[t].frame_results =
             [j \in 1..Len(Kern(k).results) |-> Val(Kern(k).results[j])]

\* A non-strict kernel was invoked, under cancellation, with an argument
\* in the Error state and another bound as a placeholder that nothing had
\* been forwarded to, and publishes what it returned.
C12_Witness ==
  \E t \in Threads :
    /\ th[t].pc = "Publish"
    /\ th[t].caller = "kernel"
    /\ Kern(th[t].kernel_id).nonstrict
    /\ invoked[th[t].kernel_id] = 1
    /\ th[t].cancel_probe # Null
    /\ \E j \in 1..Len(th[t].arguments) : State(th[t].arguments[j]) = "Error"
    /\ \E j \in 1..Len(th[t].arguments) :
         /\ IsIndirect(th[t].arguments[j])
         /\ forward[th[t].arguments[j][2]] = Null

\* No value is pending: every function argument and every result returned
\* so far is Concrete or Error.
NothingPending == \A r \in Regs : state[r] # "Unavailable"

\* No AndThen continuation was registered by ProcessUsedBys or
\* MaybeAddRefForResult.
NoContinuation ==
  /\ \A r \in Regs : th[r].pc = "none"
  /\ keep_alive = {}

\* The caller's thread did all the work inside Execute: at the return every
\* kernel has fired, every result is Concrete or Error and the executor is
\* gone; before, the bootstrap reference is the only one.
AllDoneInExecute ==
  /\ NoContinuation
  /\ th[Main].pc \notin {"Execute", "Returned"} => exec_refs = 1
  /\ Returned =>
       /\ exec_refs = 0
       /\ \A k \in KernelIds : ~IsPseudoKernel(k) => fired[k] = 1
       /\ \A i \in ResultIdx :
            results[i] # Null /\ IsAvailable(State(results[i]))

HandedOff(r) == th[r].pc # "none"

\* The value in register r is still pending.
StillPending(r) == value[r] # Null /\ State(value[r]) = "Unavailable"

PendingBlocksStrictConsumers ==
  \A r \in Regs :
    StillPending(r) =>
      \A k \in KernelIds :
        (InSeq(k, UsedBys(r)) /\ IsStrictKernel(k)) =>
          /\ invoked[k] = 0
          /\ \A j \in 1..Len(Kern(k).results) :
               LET q == Kern(k).results[j] IN
               value[q] # Null => State(value[q]) # "Concrete"

\* The registration of the continuation of register r adds nothing to any
\* worklist and takes a reference to the executor; the continuation starts
\* once, when the value is available, with the used-by list as worklist,
\* and is never registered again.
HandOffStep ==
  \A r \in Regs :
    /\ (th[r].pc = "none" /\ th'[r].pc # "none") =>
         /\ th'[r].pc = "waiting"
         /\ exec_refs' = exec_refs + 1
         /\ \A t \in Threads \ {r} :
              Len(th'[t].kernel_ids) <= Len(th[t].kernel_ids)
    /\ (th[r].pc = "waiting" /\ th'[r].pc # "waiting") =>
         /\ IsAvailable(State(value[r]))
         /\ th'[r].pc = "Loop"
         /\ th'[r].kernel_ids = UsedBys(r)
    /\ th[r].pc \notin {"none", "waiting"} => th'[r].pc \notin {"none", "waiting"}

C15_IdentityRoundTrip ==
  (fn = FnIdentity /\ Returned) =>
    /\ results[0] = Val(0)
    /\ State(results[0]) = state[0]
    /\ refcount[Val(0)] = CallerRefs + (IF 0 \in released THEN 0 ELSE 1)

\* The identity function has returned its argument, which was pending
\* during the call and is now resolved, and the caller has released it.
C15_Witness ==
  /\ fn = FnIdentity
  /\ Returned
  /\ 0 \in released
  /\ Val(0) \in keep_alive
  /\ IsAvailable(state[0])

\* The kernel ran in an execution that was never cancelled and none of its
\* arguments is in the Error state.
RunsUnhindered(k) ==
  /\ ~IsPseudoKernel(k)
  /\ cancel = Null
  /\ \A j \in 1..Len(Kern(k).arguments) :
       State(value[Kern(k).arguments[j]]) # "Error"

\* C16: every kernel is invoked at most once, and once where nothing makes
\* the executor skip it; and every consumer of a register, on whatever
\* thread and whether it binds before or after the producer has written
\* the register, binds the pointer the register holds, which never changes:
\* all consumers of a register bind the same AsyncValue.
C16_FanOutSamePointer ==
  /\ \A k \in KernelIds :
       /\ invoked[k] <= 1
       /\ (Settled /\ RunsUnhindered(k)) => invoked[k] = 1
  /\ \A t \in Threads :
       \A j \in 1..Len(th[t].arguments) :
         th[t].arguments[j] = value[Kern(th[t].kernel_id).arguments[j]]
  /\ \A t1, t2 \in Threads :
       \A j1 \in 1..Len(th[t1].arguments) :
         \A j2 \in 1..Len(th[t2].arguments) :
           Kern(th[t1].kernel_id).arguments[j1] =
             Kern(th[t2].kernel_id).arguments[j2]
           => th[t1].arguments[j1] = th[t2].arguments[j2]

\* Two consumers of one register hold, on two threads, the placeholder that
\* the first of them installed before the producer had written the
\* register.
C16_Witness ==
  \E t1, t2 \in Threads :
    /\ t1 # t2
    /\ th[t1].pc = "Fire"
    /\ th[t2].pc = "Fire"
    /\ th[t1].kernel_id # th[t2].kernel_id
    /\ \E r \in Regs :
         /\ Len(UsedBys(r)) >= 2
         /\ InSeq(Ind(r), th[t1].arguments)
         /\ InSeq(Ind(r), th[t2].arguments)

\* Thread r, the continuation of register r, is about to make the first
\* decrement for the arrival of the value of r.
DeliversArrival(r) ==
  /\ th[r].pc = "Loop"
  /\ th[r].kernel_ids # <<>>
  /\ th[r].kernel_ids = UsedBys(r)

\* C17 as stated: also when a value becomes Error after it was dispatched
\* and is delivered by its continuation, the counter of a kernel of its
\* used-by list is at most 1 when it is decremented for that arrival.
C17_LateErrorFindsCounterAtMostOne ==
  \A r \in Regs :
    (DeliversArrival(r) /\ State(value[r]) = "Error") =>
      arguments_not_ready[Back(th[r].kernel_ids)] <= 1

\* Thread t appends the used-by list of the value it dispatches.
AppendsUsedBys(t) ==
  /\ th[t].pc \in {"ProcessArgs", "Publish", "AccelLoad", "AccelCAS"}
  /\ Len(th'[t].kernel_ids) > Len(th[t].kernel_ids)

\* A value that is Error when it is dispatched: when its used-by list
\* joins the worklist every kernel of the list has a counter of at most 1;
\* and no step raises a counter.
ErrorDispatchStep ==
  /\ \A t \in Threads :
       LET r == CurrentReg(th[t]) IN
       (AppendsUsedBys(t) /\ StateOf(state', forward', value'[r]) = "Error") =>
         \A k \in KernelIds :
           InSeq(k, UsedBys(r)) => arguments_not_ready'[k] <= 1
  /\ \A k \in KernelIds : arguments_not_ready'[k] <= arguments_not_ready[k]

\* C17 amended: when a value is in the Error state at the time it is
\* dispatched, every kernel of its used-by list has arguments_not_ready at
\* most 1 from the moment the list joins the worklist, so at the decrement
\* made for this arrival.  A value that becomes Error after its dispatch is
\* delivered by its continuation without any reduction of the counters.
C17_ErrorAtDispatchFindsCounterAtMostOne == [][ErrorDispatchStep]_vars

\* A thread is about to pop a strict kernel whose counter is 1 while one of
\* its arguments is an error and another has not been produced: the
\* decrement fires the kernel early.
C17_Witness ==
  \E t \in Threads :
    /\ th[t].pc = "Loop"
    /\ th[t].kernel_ids # <<>>
    /\ LET k == Back(th[t].kernel_ids) IN
       /\ arguments_not_ready[k] = 1
       /\ \E j \in 1..Len(Kern(k).arguments) :
            LET a == Kern(k).arguments[j] IN
            value[a] # Null /\ State(value[a]) = "Error"
       /\ \E j \in 1..Len(Kern(k).arguments) :
            value[Kern(k).arguments[j]] = Null

\* Thread t is inside SetKernelsWithErrorInputReady.
InAccel(t) == th[t].pc \in {"AccelLoad", "AccelCAS"}

\* Thread t's step ends its loop for the kernel it is at.
LeavesAccelKernel(t) ==
  \/ ~(th'[t].pc \in {"AccelLoad", "AccelCAS"})
  \/ th'[t].i # th[t].i

\* A step of SetKernelsWithErrorInputReady changes only the counter of the
\* kernel it is at, only from a value above 1, and only to 1; and when it
\* leaves a kernel the counter of that kernel is at most 1.
AccelStep ==
  \A t \in Threads :
    (InAccel(t) /\ th'[t] # th[t]) =>
      /\ \A k \in KernelIds :
           arguments_not_ready'[k] # arguments_not_ready[k] =>
             /\ k = AccelKernel(th[t])
             /\ arguments_not_ready[k] > 1
             /\ arguments_not_ready'[k] = 1
      /\ LeavesAccelKernel(t) => arguments_not_ready'[AccelKernel(th[t])] <= 1

\* C18: error acceleration only lowers a counter: a counter above 1 ends
\* at 1 unless a concurrent decrement took it to 1 or below first, a
\* counter at or below 1 is left as it is, and the loop never writes a
\* value other than 1, under every interleaving with the decrements of
\* other threads.
C18_AccelerationOnlyLowersToOne == [][AccelStep]_vars

\* The loop is about to retry its compare_exchange: another thread has
\* decremented the counter since the loop loaded it.
C18_Witness ==
  \E t \in Threads :
    /\ th[t].pc = "AccelCAS"
    /\ arguments_not_ready[AccelKernel(th[t])] # th[t].not_ready_count

\* The used-by list of a value observed in the Error state joins the
\* worklist only as the last step of the reduction of the counters, with
\* every counter of the list at most 1; while the reduction is at work the
\* worklist of the thread does not grow.
DispatchOrderStep ==
  \A t \in Threads :
    /\ (AppendsUsedBys(t) /\
        StateOf(state', forward', value'[CurrentReg(th[t])]) = "Error") =>
         /\ InAccel(t)
         /\ th[t].state = "Error"
         /\ \A k \in KernelIds :
              InSeq(k, UsedBys(CurrentReg(th[t]))) => arguments_not_ready'[k] <= 1
    /\ th'[t].pc \in {"AccelLoad", "AccelCAS"} =>
         th'[t].kernel_ids = th[t].kernel_ids

\* No strict consumer of a value that is in the Error state has had its
\* implementation invoked.
NoStrictConsumerOfErrorInvoked ==
  \A r \in Regs :
    (value[r] # Null /\ State(value[r]) = "Error") =>
      \A k \in KernelIds :
        (InSeq(k, UsedBys(r)) /\ IsStrictKernel(k)) => invoked[k] = 0

\* C19: in the dispatch of a result observed in the Error state the
\* reduction of the counters of all its consumers is complete before any
\* of them joins the worklist, so that none is decremented for this result
\* while above 1; and no strict consumer of an Error result is invoked.
C19_ReductionBeforeAppend ==
  [][DispatchOrderStep]_vars /\ []NoStrictConsumerOfErrorInvoked

\* The reduction has lowered the counter of the first of several consumers
\* of an Error result and is at the second; none has joined the worklist.
C19_Witness ==
  \E t \in Threads :
    /\ th[t].pc = "AccelLoad"
    /\ th[t].i = 1
    /\ th[t].state = "Error"
    /\ arguments_not_ready[UsedBys(CurrentReg(th[t]))[1]] = 1
    /\ arguments_not_ready[UsedBys(CurrentReg(th[t]))[2]] > 1
    /\ \A k \in KernelIds :
         InSeq(k, UsedBys(CurrentReg(th[t]))) => fired[k] = 0

\* Execute holds the bootstrap reference: the executor is constructed and
\* the final DropRef of Execute is still to come.
BootstrapHeld == th[Main].pc \notin {"Execute", "Returned"}

\* The continuations registered by ProcessUsedBys that have not finished:
\* waiting for their value, or running the firing loop.
Outstanding == {r \in Regs : th[r].pc \notin {"none", "done"}}

\* The reference count of the executor is the bootstrap reference plus one
\* per outstanding continuation.
ExecutorRefsAccounted ==
  exec_refs = (IF BootstrapHeld THEN 1 ELSE 0) + Cardinality(Outstanding)

\* The count reaches zero in one step only, the one after which Execute
\* has returned and no continuation is outstanding; once zero it stays
\* zero and no thread runs.
ExecutorDestroyedOnce ==
  /\ (exec_refs > 0 /\ exec_refs' = 0) =>
       /\ th'[Main].pc = "Returned"
       /\ \A r \in Regs : th'[r].pc \in {"none", "done"}
  /\ (exec_refs = 0 /\ th[Main].pc # "Execute") =>
       /\ exec_refs' = 0
       /\ th' = th

\* C20: the executor's reference count is 1 while Execute holds its
\* bootstrap reference, else 0, plus the number of continuations registered
\* by the used-by dispatch that have not finished; so the executor is alive
\* while a firing loop runs or a continuation is outstanding, and it is
\* destroyed once, when Execute has dropped its reference and the last
\* continuation has released its own.
C20_ExecutorLifetime ==
  []ExecutorRefsAccounted /\ [][ExecutorDestroyedOnce]_vars

\* After Execute has returned the executor is kept alive by two
\* continuations, one of them inside the firing loop.
C20_Witness ==
  /\ Returned
  /\ exec_refs = 2
  /\ \E r \in Regs : th[r].pc = "Fire"

-----------------------------------------------------------------------------
\* The results of fired kernels that are still unavailable.
PendingResults ==
  {r \in Regs : r >= fn.nargs /\ state[r] = "Unavailable"}

\* A no-op continuation that holds the location handler is attached to the
\* result in register r, directly or through the IndirectAsyncValue that
\* was forwarded to it.
HandlerHeldFor(r) == \E v \in keep_alive : Resolved(v) = Val(r)

\* The executor is alive and so holds its location_handler_ member.
HandlerHeldByExecutor == exec_refs > 0

\* C21: while a result produced by a fired kernel is unavailable, whether
\* it has consumers, is only exported or has no users at all, the location
\* handler has a strong reference: the executor's, or that of a no-op
\* continuation attached to that result.
C21_HandlerOutlivesPendingResults ==
  \A r \in PendingResults : HandlerHeldByExecutor \/ HandlerHeldFor(r)

\* The executor is destroyed while a result without users and an exported
\* result are both pending; each carries its own no-op continuation.
C21_Witness ==
  /\ exec_refs = 0
  /\ \E r \in PendingResults : user_count(r) = 0 /\ HandlerHeldFor(r)
  /\ \E r \in PendingResults : user_count(r) > 0 /\ HandlerHeldFor(r)

-----------------------------------------------------------------------------
\* Register r is unset or holds an IndirectAsyncValue that has not been
\* forwarded: what the assertion of the publish loop and the cast in
\* SetRegisterValue expect.
UnsetOrUnresolvedIndirect(r) ==
  value[r] = Null \/ (value[r] = Ind(r) /\ forward[r] = Null)

\* The threads that are about to publish a result of a fired kernel.
Publishing == {t \in Threads : th[t].pc = "Publish"}

\* C22: when a fired kernel publishes a result the register is null or an
\* unresolved IndirectAsyncValue, so the assertion of the publish loop
\* never fails, and when SetRegisterValue loses its compare-and-set the
\* existing value is an IndirectAsyncValue not yet forwarded; under every
\* interleaving, with early firing by acceleration and placeholders
\* installed by consumers or by the result export.
C22_PublishFindsFreeRegister ==
  /\ \A t \in Publishing : UnsetOrUnresolvedIndirect(CurrentReg(th[t]))
  /\ "register" \notin assert_failed
  /\ "cast" \notin assert_failed

\* A continuation is about to publish into a register that holds an
\* unforwarded placeholder, after another result was already forwarded
\* into the placeholder of its register.
C22_Witness ==
  /\ \E t \in Publishing \ {Main} :
       /\ value[CurrentReg(th[t])] = Ind(CurrentReg(th[t]))
       /\ forward[CurrentReg(th[t])] = Null
  /\ \E r \in Regs : value[r] = Ind(r) /\ forward[r] # Null
  /\ assert_failed = {}

-----------------------------------------------------------------------------
\* kernel_ids_to_visit, the worklist of the constructor, while the caller's
\* thread is in the bootstrap firing loop.
BootstrapWorklist == th[Main].kernel_ids

\* The number of ids the constructor pushed that are still on the
\* worklist: they sit at the bottom, below every appended consumer.  The
\* consumers of a result have larger ids than its producer, so an appended
\* id never equals the seeded id whose place it takes and the seeded part
\* is the longest prefix the worklist shares with the seeding.
SeedLeft ==
  CHOOSE n \in 0..Len(SeedWorklist) :
    /\ n <= Len(BootstrapWorklist)
    /\ SubSeq(BootstrapWorklist, 1, n) = SubSeq(SeedWorklist, 1, n)
    /\ \/ n = Len(SeedWorklist)
       \/ n = Len(BootstrapWorklist)
       \/ BootstrapWorklist[n + 1] # SeedWorklist[n + 1]

\* The kernel ids whose seeded entry has not been popped yet.
NotYetVisited == {SeedWorklist[j] : j \in 1..SeedLeft}

\* The caller's thread pops an id in the bootstrap firing loop.
BootstrapPop == th[Main].pc = "Loop" /\ pops' = pops + 1

\* The id a pop has taken: the kernel whose counter the fetch_sub changed.
PoppedId ==
  CHOOSE k \in KernelIds : arguments_not_ready'[k] # arguments_not_ready[k]

\* A pop of the bootstrap loop takes the back of the worklist.  While
\* appended consumers are on the worklist it takes one of them and every
\* seeded id stays; otherwise it takes the smallest id not yet visited.
\* The first pop of a function without argument pseudo-kernel takes id 0.
VisitationStep ==
  BootstrapPop =>
    /\ PoppedId = BootstrapWorklist[Len(BootstrapWorklist)]
    /\ th'[Main].kernel_ids =
         SubSeq(BootstrapWorklist, 1, Len(BootstrapWorklist) - 1)
    /\ IF Len(BootstrapWorklist) > SeedLeft
       THEN NotYetVisited' = NotYetVisited
       ELSE /\ PoppedId \in NotYetVisited
            /\ \A j \in NotYetVisited : PoppedId <= j
            /\ NotYetVisited' = NotYetVisited \ {PoppedId}
    /\ pops = 0 /\ ~has_arguments_pseudo_kernel => PoppedId = 0

\* When the argument pseudo-kernel is processed id 0 is at the back of the
\* worklist: the assertion of ProcessArgumentsPseudoKernel holds.
PseudoKernelAtBack == "back" \notin assert_failed

\* C23: the worklist is seeded in reverse, so id 0 is popped first and the
\* visits of the seeded ids happen in increasing id order; it is drained
\* last-in-first-out, so the consumers appended by a kernel's available
\* results, and the consumers these append in turn, are popped before the
\* next id not yet visited; with the argument pseudo-kernel, id 0 is at the
\* back of the worklist when it is processed.
C23_VisitationOrder == [][VisitationStep]_vars /\ []PseudoKernelAtBack

\* The bootstrap loop is about to pop an appended consumer whose id is
\* larger than that of a kernel not yet visited.
C23_Witness ==
  /\ th[Main].pc = "Loop"
  /\ has_arguments_pseudo_kernel
  /\ pops > 0
  /\ SeedLeft >= 1
  /\ Len(BootstrapWorklist) > SeedLeft
  /\ \E j \in NotYetVisited : BootstrapWorklist[Len(BootstrapWorklist)] > j

-----------------------------------------------------------------------------
\* Thread t passes the readiness gate: the value to propagate starts as
\* the cancel sentinel if the execution is cancelled, as null otherwise.
ProbeStep(t) ==
  (th[t].pc = "Loop" /\ th'[t].pc \in {"Bind", "Fire"}) =>
    th'[t].any_error_argument = cancel

\* Thread t binds its next argument: an argument in the Error state at that
\* moment replaces the value to propagate, be it the cancel sentinel or an
\* earlier argument; any other argument leaves it as it is.
BindStep(t) ==
  (th[t].pc \in {"Bind", "BindCAS"} /\
   Len(th'[t].arguments) = Len(th[t].arguments) + 1) =>
    LET v == th'[t].arguments[Len(th'[t].arguments)] IN
    th'[t].any_error_argument =
      IF StateOf(state, forward, v) = "Error" THEN v
      ELSE th[t].any_error_argument

\* Thread t short-circuits a strict kernel: the implementation is not
\* invoked and every result slot gets the value to propagate.
ShortCircuitStep(t) ==
  (th[t].pc = "Fire" /\ th'[t].pc # "Fire" /\
   IsStrictKernel(th[t].kernel_id) /\ th[t].any_error_argument # Null) =>
    /\ invoked' = invoked
    /\ Len(th'[t].frame_results) = Len(Kern(th[t].kernel_id).results)
    /\ \A j \in 1..Len(th'[t].frame_results) :
         th'[t].frame_results[j] = th[t].any_error_argument

\* The value to propagate of a kernel that is binding or about to fire is
\* null, the probed cancel sentinel, or a bound argument that is in the
\* Error state.
PropagatedIsProbeOrErrorArgument ==
  \A t \in Threads :
    th[t].pc \in {"Bind", "BindCAS", "Fire"} =>
      \/ th[t].any_error_argument = th[t].cancel_probe
      \/ \E j \in 1..Len(th[t].arguments) :
           /\ th[t].arguments[j] = th[t].any_error_argument
           /\ State(th[t].arguments[j]) = "Error"

\* C24: a strict kernel that short-circuits installs in every result slot
\* the last argument, in argument order, that was in the Error state when
\* it was bound; the probed cancel sentinel is installed only when the
\* execution is cancelled and no argument was in the Error state when
\* bound.
C24_LastErrorArgumentWins ==
  /\ [][\A t \in Threads :
         ProbeStep(t) /\ BindStep(t) /\ ShortCircuitStep(t)]_vars
  /\ []PropagatedIsProbeOrErrorArgument

\* A cancelled execution has short-circuited a strict kernel with two
\* different arguments in the Error state: the second one is in the
\* result slot, not the first and not the cancel sentinel.
C24_Witness ==
  \E t \in Threads :
    /\ th[t].pc = "Publish"
    /\ IsStrictKernel(th[t].kernel_id)
    /\ invoked[th[t].kernel_id] = 0
    /\ th[t].cancel_probe = CancelValue
    /\ Len(th[t].arguments) = 2
    /\ th[t].arguments[1] # th[t].arguments[2]
    /\ State(th[t].arguments[1]) = "Error"
    /\ State(th[t].arguments[2]) = "Error"
    /\ th[t].frame_results[1] = th[t].arguments[2]

-----------------------------------------------------------------------------
\* Nothing of the call's state differs from what the caller passed in: the
\* reference counts, the registers, the results array; no executor, no
\* continuation, no no-op continuation, no pop and no failed assertion.
NoEffect ==
  /\ refcount = [v \in Values |-> BaseRefs(v)]
  /\ value = [r \in Regs |-> Null]
  /\ forward = [r \in Regs |-> Null]
  /\ orphan = 0
  /\ exec_refs = 0
  /\ keep_alive = {}
  /\ results = [i \in ResultIdx |-> Null]
  /\ \A r \in Regs : th[r].pc = "none"
  /\ \A k \in KernelIds : fired[k] = 0 /\ invoked[k] = 0
  /\ pops = 0
  /\ assert_failed = {}

\* Execute returns in its first step.
ReturnsImmediately == th[Main].pc \in {"Execute", "Returned"}

\* C25: with an empty kernel stream Execute returns immediately and has no
\* effect: no reference count of an argument changes, no executor is
\* allocated, no kernel fires, no continuation is registered and every
\* results[i] is as the caller passed it.
C25_EmptyStreamNoEffect ==
  Len(fn.kernels) = 0 => ReturnsImmediately /\ NoEffect

\* Execute has returned from a function with an argument and an empty
\* kernel stream; the argument still has the caller's references only.
C25_Witness ==
  /\ Len(fn.kernels) = 0
  /\ fn.nargs > 0
  /\ Returned
  /\ refcount[Val(0)] = CallerRefs
  /\ \A i \in ResultIdx : results[i] = Null

====
